---- MODULE Spec2Model ----
(***************************************************************************)
(* The Electron main process of the music visualizer: the Spout streaming  *)
(* session (offscreen window, sender, paint handler, frame pacing) as a    *)
(* state machine.  One action per IPC handler / event callback; an async   *)
(* handler is split at its only suspension point, the await of the         *)
(* offscreen window's loadFile.                                            *)
(***************************************************************************)
EXTENDS Integers, Sequences, FiniteSets, TLC

\* ------------------------------------------------------------------ bounds
MaxWindows == 2      \* offscreen windows created in one run
MaxSenders == 2      \* SpoutOutput constructions in one run
MaxPaint == 4        \* cap on paintCount
MaxAttempts == 2     \* enable attempts answered "Spout not available"

\* ------------------------------------------------------- program constants
MaxFrameSkip == 2    \* settings.spoutFrameSkip.max, the slider's max

Resolutions == {"720p", "1080p"}
FrameSkips == 0..MaxFrameSkip
WindowIds == 1..MaxWindows
SenderIds == 1..MaxSenders

\* Sender names: the default of settings.spoutSenderName and of the main
\* process's spoutSenderName, and one name an operator types in.
DefaultSenderName == "Music Visualizer"
Names == {DefaultSenderName, "VJ"}

VARIABLES
    spoutAvailable,       \* require('electron-spout') succeeded
    mainWindow,           \* TRUE while the interactive window exists
    spoutWindow,          \* 0 = null, else the id of the BrowserWindow referenced
    windows,              \* the BrowserWindow objects created by createSpoutWindow
    awaiting,             \* windows whose creating enable call is suspended at loadFile
    spoutSender,          \* 0 = null, else the id of the SpoutOutput referenced
    sendersCreated,       \* number of SpoutOutput objects constructed so far
    spoutEnabled,
    hasShownSpoutDialog,
    dialogsShown,         \* number of dialog.showMessageBox calls
    unavailableAttempts,  \* number of enable calls answered "Spout not available"
    paintCount,
    texturePathCount,
    bitmapPathCount,
    updateErrors,         \* number of 'Spout update error' reports (caught exceptions)
    frameSkip,
    ret,                  \* the value the last completed enable, disable or update-name
                          \* handler returned
    lastCtl,              \* the last lifecycle call issued: "none", "enable" or "disable"
    recent,               \* frames forwarded by each of the last consecutive paints of
                          \* the session's surface under an unchanged frameSkip
    spoutSenderName,      \* the main process's module variable of that name
    senderNames           \* the name each SpoutOutput object advertises ("" = not constructed)

\* The settings panel of the interactive window (renderer process).
VARIABLES
    settings,             \* settings.spoutEnabled/.spoutSenderName/.spoutResolution/.spoutFrameSkip
    checked,              \* enableCheckbox.checked
    calls,                \* options argument held by the enable call suspended on each window
    inbox                 \* results of enable/disable calls on their way back to the panel

\* The sync:* channels between the interactive and the offscreen window.
VARIABLES
    live,                 \* the interactive surface's settings, audio, scene and time
    mirror,               \* the offscreen page's copies of them
    listening,            \* window whose page has registered its listeners (0 = none)
    wire,                 \* messages forwarded to an offscreen window, not yet received
    requests,             \* 'spout:request-scene' messages not yet handled
    ticked                \* a tick has run since the current page registered its listeners

\* The particle simulation of the standalone entry.
VARIABLES
    life,                 \* particlePositions[p].w, in units of 1/LifeUnits
    position,             \* particlePositions[p].xyz
    pass,                 \* "host", or "update" while the Update pass runs
    pending,              \* invocations of the Update pass that have not started
    linking,              \* invocations that have aged their particle, before their Loop
    closest1,             \* slot whose position the Loop left in closestPos1
    closest2,             \* slot whose position the Loop left in closestPos2
    linkOpacity1,         \* linksColors w of the first link's vertices: l1 before pow(0.8)
    linkOpacity2,         \* linksColors w of the second link's vertices: l2 before pow(0.8)
    spawnIndex,
    nbToSpawn,
    particleLifetime,     \* in halves
    deltaTime             \* dt of the tick, in life units

\* The particle scene's spawn rate.
VARIABLES
    spawnSettings,        \* settings.baseSpawnRate.value (hundredths), settings.bassSpawnRate.value
    sceneTick             \* last tick: the settings and bass read, the nbToSpawn written

\* Audio analysis.
VARIABLES
    analyser,             \* the application has an analyser and a dataArray
    sensitivity,          \* settings.<band>Sensitivity.value, in thousandths
    audioData,            \* what analyzeAudio returned last, and whether it had an analyser
    mainAnalyser,         \* the standalone entry has an analyser and a dataArray
    audioUniforms,        \* audioBass, audioMid, audioHigh, audioOverall of the standalone entry
    sharedUniforms        \* audioBass, audioMid, audioHigh, audioOverall of audio/uniforms.js

\* The renderer module (core/renderer.js) and the bootstrap's appState.
VARIABLES
    webgpu,               \* WebGPU.isAvailable()
    renderer,             \* module variable: 0 for null, else the renderer object
    camera,               \* module variable: 0 for null, else the camera made with that renderer
    controls,             \* module variable: 0 for null, else the renderer whose canvas they are bound to
    isInitialized,
    appInitialized,       \* appState.isInitialized
    canvases,             \* renderers whose domElement is a child of the container
    renderersCreated,
    initAwaiting,         \* calls suspended at await renderer.init(), by caller
    rendererRet           \* how the last call ended

mainVars == <<spoutAvailable, mainWindow, spoutWindow, windows, awaiting, spoutSender,
              sendersCreated, spoutEnabled, hasShownSpoutDialog, dialogsShown,
              unavailableAttempts, paintCount, texturePathCount, bitmapPathCount,
              updateErrors, frameSkip, ret, lastCtl, recent, spoutSenderName,
              senderNames>>

guiVars == <<settings, checked, calls, inbox>>

syncVars == <<live, mirror, listening, wire, requests, ticked>>

particleVars == <<life, position, pass, pending, linking, closest1, closest2,
                  linkOpacity1, linkOpacity2,
                  spawnIndex, nbToSpawn, particleLifetime, deltaTime>>

rateVars == <<spawnSettings, sceneTick>>

audioVars == <<analyser, sensitivity, audioData, mainAnalyser, audioUniforms,
               sharedUniforms>>

rendererVars == <<webgpu, renderer, camera, controls, isInitialized, appInitialized,
                  canvases, renderersCreated, initAwaiting, rendererRet>>

\* Everything outside the main process.
notMain == <<guiVars, syncVars, particleVars, rateVars, audioVars, rendererVars>>

\* Everything outside the main process and the settings panel.
notGui == <<syncVars, particleVars, rateVars, audioVars, rendererVars>>

\* Everything outside the main process and the sync channels.
notSync == <<guiVars, particleVars, rateVars, audioVars, rendererVars>>

\* Everything outside the particle simulation.
notParticle == <<mainVars, guiVars, syncVars, rateVars, audioVars, rendererVars>>

\* Everything outside the particle scene's spawn rate.
notRate == <<mainVars, guiVars, syncVars, particleVars, audioVars, rendererVars>>

\* Everything outside the audio analysis.
notAudio == <<mainVars, guiVars, syncVars, particleVars, rateVars, rendererVars>>

\* Everything outside the renderer module.
notRenderer == <<mainVars, guiVars, syncVars, particleVars, rateVars, audioVars>>

vars == <<mainVars, guiVars, syncVars, particleVars, rateVars, audioVars, rendererVars>>

\* A BrowserWindow: st is "none" (not created), "open", or "closed" (close() was
\* called: the window is going away and emits no more paint events).
\* width and height are fixed when the window is constructed.
NoWindow == [st |-> "none", painting |-> FALSE, handlers |-> 0, width |-> 0, height |-> 0]

\* const width = resolution === '720p' ? 1280 : 1920;
Width(resolution) == IF resolution = "720p" THEN 1280 ELSE 1920

\* const height = resolution === '720p' ? 720 : 1080;
Height(resolution) == IF resolution = "720p" THEN 720 ELSE 1080

\* new BrowserWindow({show: false, width, height, ... offscreen: true ...})
NewWindow(resolution) ==
    [st |-> "open", painting |-> FALSE, handlers |-> 0,
     width |-> Width(resolution), height |-> Height(resolution)]

NoReturn == [op |-> "none", success |-> FALSE, error |-> "none"]

Return(op, success, error) == [op |-> op, success |-> success, error |-> error]

\* An enable call's options argument; NoCall where no call is suspended.
NoCall == [resolution |-> "none", frameSkip |-> 0]

Kinds == {"settings", "audio", "scene", "time"}

\* The values a settings snapshot, an audio snapshot, a scene selection or an
\* elapsed-time hint takes.
Levels == {0, 1}

\* Both pages start from the same defaults.
SurfaceDefaults == [k \in Kinds |-> 0]

SyncInit ==
    /\ live = SurfaceDefaults
    /\ mirror = SurfaceDefaults
    /\ listening = 0
    /\ wire = <<>>
    /\ requests = 0
    /\ ticked = FALSE

NbParticles == 3     \* nbParticles (2^13 in the program)
SpawnDispatch == 1   \* invocations of the Spawn pass (5 in the program)
LifeUnits == 2       \* life 1.0, in units of the smallest decrement
MaxDt == 1           \* largest dt of a tick, in the same units
MaxPosition == 1     \* positions are points 0..MaxPosition on a line

ParticleIds == 0..(NbParticles - 1)
Positions == 0..MaxPosition

\* closestDist1/closestDist2 start at float(10000.0).
FarAway == 10000

\* No particle: closestPos stays vec3(0.0), closestLife 0.0.
NoParticle == -1

\* Levels of the audio scalars bass and overall used by the host.
ScalarLevels == {0, 1}

\* Mutant: Math.round in place of Math.floor.
NbToSpawnRounded(base100, bassNum, bassDen, gain) ==
    (2 * (base100 * bassDen + bassNum * gain * 100) + 100 * bassDen) \div (200 * bassDen)

\* Math.floor(base + bass * gain), base in hundredths, bass = bassNum / bassDen.
NbToSpawn(base100, bassNum, bassDen, gain) ==
    (base100 * bassDen + bassNum * gain * 100) \div (100 * bassDen)

\* particleLifetime.value = 0.5 + (1 - audioOverall.value) * 0.5, in halves.
ParticleLifetime(overall) == 1 + (1 - overall)

\* initParticles, then the uniforms' initial values.
ParticleInit ==
    /\ life = [p \in ParticleIds |-> -LifeUnits]
    /\ position = [p \in ParticleIds |-> MaxPosition]
    /\ pass = "host"
    /\ pending = {}
    /\ linking = {}
    /\ closest1 = [p \in ParticleIds |-> NoParticle]
    /\ closest2 = [p \in ParticleIds |-> NoParticle]
    /\ linkOpacity1 = [p \in ParticleIds |-> 0]
    /\ linkOpacity2 = [p \in ParticleIds |-> 0]
    /\ spawnIndex = 0
    /\ nbToSpawn = 5
    /\ particleLifetime = 1
    /\ deltaTime = 0

\* The particle scene of the application: settings.baseSpawnRate (in
\* hundredths) and settings.bassSpawnRate, and what animate() read and wrote
\* in its last tick.
MaxSliderStep == 3   \* slider positions used, of the 0..100 an input has
BassDen == 4         \* audioBass.value is a multiple of 1/BassDen in [0, 1]

SpawnSettings == [baseSpawnRate |-> [value |-> 500, min |-> 100, max |-> 5000],
                  bassSpawnRate |-> [value |-> 50, min |-> 0, max |-> 200]]

RateInit ==
    /\ spawnSettings = [baseSpawnRate |-> SpawnSettings.baseSpawnRate.value,
                        bassSpawnRate |-> SpawnSettings.bassSpawnRate.value]
    /\ sceneTick = [base |-> 500, gain |-> 50, bass |-> 0, nbToSpawn |-> 5]

\* Audio analysis: the application's analyzeAudio and the standalone entry's
\* updateAudioData.  A scalar is a fraction [num, den] in lowest terms.
BinCount == 13       \* analyser.frequencyBinCount (256 and 128 in the program)
Segments == 3        \* a spectrum is level within each of this many stretches of bins

Bands == {"bass", "mid", "high"}

\* Values of a byte of frequency data used as levels.
ByteLevels == {0, 255}

\* settings.<band>Sensitivity, in thousandths: value 1.5, min 0.1, max 5.
Sensitivity == [value |-> 1500, min |-> 100, max |-> 5000]

RECURSIVE GCD(_, _)
GCD(a, b) == IF b = 0 THEN a ELSE GCD(b, a % b)

Frac(n, d) == [num |-> n \div GCD(n, d), den |-> d \div GCD(n, d)]

Zero == Frac(0, 1)

\* { bass: 0, mid: 0, high: 0, overall: 0 }
Silence == [bass |-> Zero, mid |-> Zero, high |-> Zero, overall |-> Zero]

AudioInit ==
    /\ analyser = FALSE
    /\ sensitivity = [b \in Bands |-> Sensitivity.value]
    /\ audioData = [scalars |-> Silence, analysed |-> FALSE]
    /\ mainAnalyser = FALSE
    /\ audioUniforms = [scalars |-> Silence, analysed |-> FALSE]
    /\ sharedUniforms = Silence

\* defaultSettings (Spout Output) and the controls createSpoutControls builds.
GuiInit ==
    /\ settings = [spoutEnabled |-> FALSE, spoutSenderName |-> DefaultSenderName,
                   spoutResolution |-> "1080p", spoutFrameSkip |-> 0]
    /\ checked = FALSE
    /\ calls = [w \in WindowIds |-> NoCall]
    /\ inbox = <<>>

\* Calls of initRenderer that get as far as creating a renderer.
MaxRenderers == 3

Callers == {"direct", "visualization"}

InitsAwaiting == initAwaiting["direct"] + initAwaiting["visualization"]

\* let renderer = null, camera = null, controls = null, isInitialized = false;
\* appState.isInitialized is false until initVisualization has run.
RendererModuleInit ==
    /\ renderer = 0
    /\ camera = 0
    /\ controls = 0
    /\ isInitialized = FALSE
    /\ appInitialized = FALSE
    /\ canvases = {}
    /\ renderersCreated = 0
    /\ initAwaiting = [c \in Callers |-> 0]
    /\ rendererRet = "none"

\* A browser with WebGPU.
RendererInit == webgpu = TRUE /\ RendererModuleInit

MainInit ==
    /\ spoutAvailable \in BOOLEAN
    /\ mainWindow = TRUE
    /\ spoutWindow = 0
    /\ windows = [w \in WindowIds |-> NoWindow]
    /\ awaiting = {}
    /\ spoutSender = 0
    /\ sendersCreated = 0
    /\ spoutEnabled = FALSE
    /\ hasShownSpoutDialog = FALSE
    /\ dialogsShown = 0
    /\ unavailableAttempts = 0
    /\ paintCount = 0
    /\ texturePathCount = 0
    /\ bitmapPathCount = 0
    /\ updateErrors = 0
    /\ frameSkip = 0
    /\ ret = NoReturn
    /\ lastCtl = "none"
    /\ recent = <<>>
    /\ spoutSenderName = DefaultSenderName
    /\ senderNames = [i \in SenderIds |-> ""]

Init ==
    /\ MainInit
    /\ GuiInit
    /\ SyncInit
    /\ ParticleInit
    /\ RateInit
    /\ AudioInit
    /\ RendererInit

\* ------------------------------------------------------------ paint handler
\* The module variables the paint handler reads or writes.
ModuleState ==
    [paintCount |-> paintCount, texturePathCount |-> texturePathCount,
     bitmapPathCount |-> bitmapPathCount, updateErrors |-> updateErrors,
     spoutEnabled |-> spoutEnabled, spoutSender |-> spoutSender,
     frameSkip |-> frameSkip]

\* Mutant: the catch block gives the session up after a failed frame.
CatchTearsDown(m) == [m EXCEPT !.updateErrors = @ + 1, !.spoutEnabled = FALSE]

\* catch (err) { console.error('Spout update error:', err); }
CatchUpdateError(m) == [m EXCEPT !.updateErrors = @ + 1]

\* spoutSender.updateTexture(texture) / spoutSender.updateFrame(bitmap, size):
\* the sender call either returns or throws into the handler's catch block.
SenderUpdate(m, throws) == IF throws THEN CatchUpdateError(m) ELSE m

\* Frame pacing: TRUE when the paint numbered pc is skipped.
SkipFrame(pc, skip) == skip > 0 /\ pc % (skip + 1) # 0

\* One run of the 'paint' listener on module state m.
OnPaint(m, texture, image, throws) ==
    LET counted == [m EXCEPT !.paintCount = @ + 1] IN
    IF counted.spoutSender = 0 \/ ~counted.spoutEnabled THEN counted
    ELSE IF SkipFrame(counted.paintCount, counted.frameSkip) THEN counted
    ELSE IF texture
         THEN SenderUpdate([counted EXCEPT !.texturePathCount = @ + 1], throws)
    ELSE IF image
         THEN SenderUpdate([counted EXCEPT !.bitmapPathCount = @ + 1], throws)
    ELSE counted

\* A paint event runs every 'paint' listener registered on the window, in
\* registration order; the i-th listener's sender call throws iff i \in T.
RECURSIVE EmitPaint(_, _, _, _, _, _)
EmitPaint(m, i, n, texture, image, T) ==
    IF i > n THEN m
    ELSE EmitPaint(OnPaint(m, texture, image, i \in T), i + 1, n, texture, image, T)

Forwarded(m) == m.texturePathCount + m.bitmapPathCount

\* The last MaxFrameSkip + 1 entries of s \o <<x>>.
Remember(s, x) ==
    LET t == Append(s, x) IN
    IF Len(t) > MaxFrameSkip + 1 THEN SubSeq(t, 2, Len(t)) ELSE t

\* webContents 'paint' event of offscreen window w.
Paint(w, texture, image, T) ==
    /\ windows[w].st = "open"
    /\ windows[w].painting
    /\ paintCount + windows[w].handlers <= MaxPaint    \* bound
    /\ T \subseteq 1..windows[w].handlers
    /\ LET m == EmitPaint(ModuleState, 1, windows[w].handlers, texture, image, T) IN
         /\ paintCount' = m.paintCount
         /\ texturePathCount' = m.texturePathCount
         /\ bitmapPathCount' = m.bitmapPathCount
         /\ updateErrors' = m.updateErrors
         /\ spoutEnabled' = m.spoutEnabled
         /\ spoutSender' = m.spoutSender
         /\ frameSkip' = m.frameSkip
         /\ recent' = IF w # spoutWindow THEN recent
                      ELSE IF spoutEnabled /\ (texture \/ image)
                           THEN Remember(recent, Forwarded(m) - Forwarded(ModuleState))
                      ELSE <<>>
    /\ UNCHANGED <<spoutAvailable, mainWindow, spoutWindow, windows, awaiting,
                   sendersCreated, hasShownSpoutDialog, dialogsShown,
                   unavailableAttempts, ret, lastCtl,
                   spoutSenderName, senderNames>>

\* Each listener's sender call may throw or not, independently.
PaintEvent(w, texture, image) ==
    \E T \in SUBSET (1..windows[w].handlers) : Paint(w, texture, image, T)

\* ------------------------------------------------------------ spout:enable
\* Mutant: the dialog is shown without consulting hasShownSpoutDialog.
ShowDialogAlways == mainWindow

\* if (!hasShownSpoutDialog && mainWindow)
ShowDialog == ~hasShownSpoutDialog /\ mainWindow

\* spout:enable when the native module did not load.
SpoutEnableUnavailable ==
    /\ mainWindow
    /\ ~spoutAvailable
    /\ unavailableAttempts < MaxAttempts    \* bound
    /\ unavailableAttempts' = unavailableAttempts + 1
    /\ IF ShowDialog
       THEN hasShownSpoutDialog' = TRUE /\ dialogsShown' = dialogsShown + 1
       ELSE UNCHANGED <<hasShownSpoutDialog, dialogsShown>>
    /\ ret' = Return("enable", FALSE, "not-available")
    /\ lastCtl' = "enable"
    /\ UNCHANGED <<spoutAvailable, mainWindow, spoutWindow, windows, awaiting,
                   spoutSender, sendersCreated, spoutEnabled, paintCount,
                   texturePathCount, bitmapPathCount, updateErrors, frameSkip, recent,
                   spoutSenderName, senderNames>>

\* The rest of the handler after `await createSpoutWindow(resolution)`:
\* construct the sender, set spoutEnabled, notify the main window, return.
AcquireSender(ctorThrows) ==
    IF ctorThrows
    THEN /\ ret' = Return("enable", FALSE, "sender")
         /\ UNCHANGED <<spoutSender, sendersCreated, spoutEnabled, recent, senderNames>>
    ELSE /\ sendersCreated' = sendersCreated + 1
         /\ spoutSender' = sendersCreated + 1
         /\ senderNames' = [senderNames EXCEPT ![sendersCreated + 1] = spoutSenderName]
         /\ spoutEnabled' = TRUE
         /\ recent' = <<>>
         /\ ret' = IF mainWindow THEN Return("enable", TRUE, "none")
                   ELSE Return("enable", FALSE, "TypeError")

\* Bound: every enable call in flight can still construct its sender.
SendersLeft == sendersCreated + Cardinality(awaiting) < MaxSenders

\* spout:enable when spoutWindow is already set: createSpoutWindow returns at
\* once and the handler runs to its end without another event in between.
SpoutEnableExisting(ctorThrows) ==
    /\ mainWindow
    /\ spoutAvailable
    /\ spoutWindow # 0
    /\ SendersLeft
    /\ AcquireSender(ctorThrows)
    /\ lastCtl' = "enable"
    /\ UNCHANGED <<spoutAvailable, mainWindow, spoutWindow, windows, awaiting,
                   hasShownSpoutDialog, dialogsShown, unavailableAttempts, paintCount,
                   texturePathCount, bitmapPathCount, updateErrors, frameSkip,
                   spoutSenderName>>

Created == {w \in WindowIds : windows[w].st # "none"}

\* spout:enable when spoutWindow is null: createSpoutWindow makes the
\* BrowserWindow, stores it in spoutWindow and suspends at `await loadFile`.
SpoutEnableCreate(resolution) ==
    /\ mainWindow
    /\ spoutAvailable
    /\ spoutWindow = 0
    /\ SendersLeft
    /\ Cardinality(Created) < MaxWindows    \* bound
    /\ LET w == Cardinality(Created) + 1 IN
         /\ spoutWindow' = w
         /\ windows' = [windows EXCEPT ![w] = NewWindow(resolution)]
         /\ awaiting' = awaiting \cup {w}
    /\ lastCtl' = "enable"
    /\ UNCHANGED <<spoutAvailable, mainWindow, spoutSender, sendersCreated, spoutEnabled,
                   hasShownSpoutDialog, dialogsShown, unavailableAttempts, paintCount,
                   texturePathCount, bitmapPathCount, updateErrors, frameSkip, ret,
                   recent,
                   spoutSenderName, senderNames>>

\* Mutant: the continuation keeps using the window this call created.
ResumeOwnWindow(w) == w

\* The window the code after `await spoutWindow.loadFile(...)` acts on: it
\* reads the module variable again, not the window this call created.
ResumeWindow(w) == spoutWindow

\* loadFile of window w resolved (did-finish-load): the suspended enable call
\* resumes in createSpoutWindow, then finishes the handler.  `gone` says
\* whether a closed window has already been destroyed when it is touched.
LoadFinished(w, gone, ctorThrows) ==
    /\ w \in awaiting
    /\ awaiting' = awaiting \ {w}
    /\ LET t == ResumeWindow(w) IN
         IF t = 0 \/ (windows[t].st = "closed" /\ gone)
         THEN \* spoutWindow.webContents throws; caught by the handler
              /\ ret' = Return("enable", FALSE, "TypeError")
              /\ UNCHANGED <<windows, spoutSender, sendersCreated, spoutEnabled, recent,
                             senderNames>>
         ELSE /\ windows' = [windows EXCEPT ![t].painting = TRUE,
                                            ![t].handlers = @ + 1]
              /\ AcquireSender(ctorThrows)
    /\ UNCHANGED <<spoutAvailable, mainWindow, spoutWindow, hasShownSpoutDialog,
                   dialogsShown, unavailableAttempts, paintCount, texturePathCount,
                   bitmapPathCount, updateErrors, frameSkip, lastCtl,
                   spoutSenderName>>

\* loadFile of window w rejected (did-fail-load, or the window was destroyed
\* while loading): createSpoutWindow rejects and the handler's catch returns
\* the failure.
LoadFailed(w) ==
    /\ w \in awaiting
    /\ awaiting' = awaiting \ {w}
    /\ ret' = Return("enable", FALSE, "load")
    /\ UNCHANGED <<spoutAvailable, mainWindow, spoutWindow, windows, spoutSender,
                   sendersCreated, spoutEnabled, hasShownSpoutDialog, dialogsShown,
                   unavailableAttempts, paintCount, texturePathCount, bitmapPathCount,
                   updateErrors, frameSkip, lastCtl, recent,
                   spoutSenderName, senderNames>>

\* BrowserWindow.close(): the window stops painting and its listeners and
\* surface go away with it.
Close(ws, w) ==
    [ws EXCEPT ![w] = [st |-> "closed", painting |-> FALSE, handlers |-> 0,
                       width |-> 0, height |-> 0]]

\* ----------------------------------------------------------- spout:disable
\* Mutant: destroySpoutWindow forgets `spoutSender = null`.
destroySpoutWindowKeepsSender ==
    /\ windows' = IF spoutWindow # 0 THEN Close(windows, spoutWindow) ELSE windows
    /\ spoutWindow' = 0
    /\ UNCHANGED spoutSender

destroySpoutWindow ==
    /\ windows' = IF spoutWindow # 0 THEN Close(windows, spoutWindow) ELSE windows
    /\ spoutWindow' = 0
    /\ spoutSender' = 0

SpoutDisable ==
    /\ mainWindow
    /\ spoutEnabled' = FALSE
    /\ destroySpoutWindow
    /\ ret' = Return("disable", TRUE, "none")
    /\ lastCtl' = "disable"
    /\ recent' = <<>>
    /\ UNCHANGED <<spoutAvailable, mainWindow, awaiting, sendersCreated,
                   hasShownSpoutDialog, dialogsShown, unavailableAttempts, paintCount,
                   texturePathCount, bitmapPathCount, updateErrors, frameSkip,
                   spoutSenderName, senderNames>>

\* spout:get-status
GetStatus == spoutEnabled

\* spout:update-frame-skip
UpdateFrameSkip(skip) ==
    /\ mainWindow
    /\ frameSkip' = skip
    /\ recent' = IF skip = frameSkip THEN recent ELSE <<>>
    /\ UNCHANGED <<spoutAvailable, mainWindow, spoutWindow, windows, awaiting,
                   spoutSender, sendersCreated, spoutEnabled, hasShownSpoutDialog,
                   dialogsShown, unavailableAttempts, paintCount, texturePathCount,
                   bitmapPathCount, updateErrors, ret, lastCtl,
                   spoutSenderName, senderNames>>

\* mainWindow.on('closed')
MainWindowClosed ==
    /\ mainWindow
    /\ mainWindow' = FALSE
    /\ windows' = IF spoutWindow # 0 THEN Close(windows, spoutWindow) ELSE windows
    /\ UNCHANGED <<spoutAvailable, spoutWindow, awaiting, spoutSender, sendersCreated,
                   spoutEnabled, hasShownSpoutDialog, dialogsShown, unavailableAttempts,
                   paintCount, texturePathCount, bitmapPathCount, updateErrors,
                   frameSkip, ret, lastCtl, recent,
                   spoutSenderName, senderNames>>

\* The main process under any caller of the lifecycle and pacing handlers.
\* The sender's name plays no part in them, so the rename handler is left to
\* GuiSpec below, and here the names keep their initial values.
Next ==
    \/ SpoutEnableUnavailable /\ UNCHANGED notMain
    \/ \E c \in BOOLEAN : SpoutEnableExisting(c) /\ UNCHANGED notMain
    \/ \E r \in Resolutions : SpoutEnableCreate(r) /\ UNCHANGED notMain
    \/ \E w \in WindowIds, g \in BOOLEAN, c \in BOOLEAN :
          LoadFinished(w, g, c) /\ UNCHANGED notMain
    \/ \E w \in WindowIds : LoadFailed(w) /\ UNCHANGED notMain
    \/ \E w \in WindowIds, texture \in BOOLEAN, image \in BOOLEAN :
          PaintEvent(w, texture, image) /\ UNCHANGED notMain
    \/ SpoutDisable /\ UNCHANGED notMain
    \/ \E k \in FrameSkips : UpdateFrameSkip(k) /\ UNCHANGED notMain
    \/ MainWindowClosed /\ UNCHANGED notMain

Spec == Init /\ [][Next]_vars

\* ---------------------------------------------------------- spout:update-name
\* Mutant: a rename replaces the sender by a new one carrying the new name.
updateSpoutSenderNameRecreates(name, throws) ==
    /\ spoutSenderName' = name
    /\ IF spoutEnabled /\ spoutSender # 0 /\ sendersCreated < MaxSenders
       THEN /\ sendersCreated' = sendersCreated + 1
            /\ spoutSender' = sendersCreated + 1
            /\ senderNames' = [senderNames EXCEPT ![sendersCreated + 1] = name]
       ELSE UNCHANGED <<sendersCreated, spoutSender, senderNames>>

\* spoutSenderName = name; if (spoutEnabled && spoutSender) { try {
\* spoutSender.name = name } catch ... }: the setter returns or throws.
updateSpoutSenderName(name, throws) ==
    /\ spoutSenderName' = name
    /\ senderNames' = IF spoutEnabled /\ spoutSender # 0 /\ ~throws
                      THEN [senderNames EXCEPT ![spoutSender] = name]
                      ELSE senderNames
    /\ UNCHANGED <<sendersCreated, spoutSender>>

\* ipcMain.handle('spout:update-name')
UpdateName(name, throws) ==
    /\ mainWindow
    /\ updateSpoutSenderName(name, throws)
    /\ ret' = Return("update-name", TRUE, "none")
    /\ UNCHANGED <<spoutAvailable, mainWindow, spoutWindow, windows, awaiting,
                   spoutEnabled, hasShownSpoutDialog, dialogsShown, unavailableAttempts,
                   paintCount, texturePathCount, bitmapPathCount, updateErrors,
                   frameSkip, lastCtl, recent>>

\* ------------------------------------------------------------ settings panel
\* The Spout controls of the interactive window (createSpoutControls with the
\* callbacks createParticlesGUI passes it) together with the main process.
\* A spoutAPI call and the start of its ipcMain handler are one step; the
\* handler's result travels back through inbox and resumes the panel's
\* callback in a later step.
MaxInbox == 2        \* enable/disable calls whose result has not reached the panel

\* const options = { resolution: settings.spoutResolution?.value || '1080p',
\*                   frameSkip: settings.spoutFrameSkip?.value || 0 };
EnableOptions ==
    [resolution |-> settings.spoutResolution, frameSkip |-> settings.spoutFrameSkip]

\* The resolved value of `await window.spoutAPI.enable(options)` /
\* `await window.spoutAPI.disable()`, with the options the awaiting callback holds.
Reply(op, success, options) == [op |-> op, success |-> success, frameSkip |-> options.frameSkip]

\* The result reaches the panel only while the interactive window exists.
Resolve(r) == IF mainWindow' THEN Append(inbox, r) ELSE inbox

\* Bound: every call in flight can still deliver its result.
InboxLeft == Len(inbox) + Cardinality(awaiting) < MaxInbox

\* createSpoutControls runs again (the panel is rebuilt for a scene):
\* enableCheckbox.checked = settings.spoutEnabled.value
CreateSpoutControls ==
    /\ mainWindow
    /\ checked' = settings.spoutEnabled
    /\ UNCHANGED <<mainVars, settings, calls, inbox>>

\* enableCheckbox.onchange, box now checked, native module missing.
CheckEnableUnavailable ==
    /\ ~checked /\ InboxLeft
    /\ checked' = TRUE
    /\ SpoutEnableUnavailable
    /\ inbox' = Resolve(Reply("enable", ret'.success, EnableOptions))
    /\ UNCHANGED <<settings, calls>>

\* enableCheckbox.onchange, box now checked, spoutWindow already set.
CheckEnableExisting(ctorThrows) ==
    /\ ~checked /\ InboxLeft
    /\ checked' = TRUE
    /\ SpoutEnableExisting(ctorThrows)
    /\ inbox' = Resolve(Reply("enable", ret'.success, EnableOptions))
    /\ UNCHANGED <<settings, calls>>

\* enableCheckbox.onchange, box now checked, spoutWindow null: the handler
\* suspends at loadFile holding its options.
CheckEnableCreate ==
    /\ ~checked /\ InboxLeft
    /\ checked' = TRUE
    /\ SpoutEnableCreate(EnableOptions.resolution)
    /\ calls' = [calls EXCEPT ![spoutWindow'] = EnableOptions]
    /\ UNCHANGED <<settings, inbox>>

\* enableCheckbox.onchange, box now unchecked.
UncheckEnable ==
    /\ checked /\ InboxLeft
    /\ checked' = FALSE
    /\ SpoutDisable
    /\ inbox' = Resolve(Reply("disable", ret'.success, NoCall))
    /\ UNCHANGED <<settings, calls>>

\* const result = await window.spoutAPI.enable(options);
\* if (result.success) { settings.spoutEnabled.value = true; ... }
EnableReturned ==
    /\ mainWindow
    /\ inbox # <<>> /\ Head(inbox).op = "enable"
    /\ settings' = IF Head(inbox).success THEN [settings EXCEPT !.spoutEnabled = TRUE]
                   ELSE settings
    /\ inbox' = Tail(inbox)
    /\ UNCHANGED <<mainVars, checked, calls>>

\* await window.spoutAPI.disable(); settings.spoutEnabled.value = false;
DisableReturned ==
    /\ mainWindow
    /\ inbox # <<>> /\ Head(inbox).op = "disable"
    /\ settings' = [settings EXCEPT !.spoutEnabled = FALSE]
    /\ inbox' = Tail(inbox)
    /\ UNCHANGED <<mainVars, checked, calls>>

\* nameInput.onchange -> onNameChange(name)
onNameChange(name, throws) ==
    /\ mainWindow
    /\ settings' = [settings EXCEPT !.spoutSenderName = name]
    /\ IF settings.spoutEnabled THEN UpdateName(name, throws) ELSE UNCHANGED mainVars
    /\ UNCHANGED <<checked, calls, inbox>>

\* resolutionSelect.onchange -> onResolutionChange(resolution)
onResolutionChange(resolution) ==
    /\ mainWindow
    /\ settings' = [settings EXCEPT !.spoutResolution = resolution]
    /\ UNCHANGED <<mainVars, checked, calls, inbox>>

\* frameSkipInput.oninput -> onFrameSkipChange(skip)
onFrameSkipChange(skip) ==
    /\ mainWindow
    /\ settings' = [settings EXCEPT !.spoutFrameSkip = skip]
    /\ IF settings.spoutEnabled THEN UpdateFrameSkip(skip) ELSE UNCHANGED mainVars
    /\ UNCHANGED <<checked, calls, inbox>>

\* The suspended enable call resumes and returns its result to the panel.
EnableLoadFinished(w, gone, ctorThrows) ==
    /\ LoadFinished(w, gone, ctorThrows)
    /\ inbox' = Resolve(Reply("enable", ret'.success, calls[w]))
    /\ calls' = [calls EXCEPT ![w] = NoCall]
    /\ UNCHANGED <<settings, checked>>

EnableLoadFailed(w) ==
    /\ LoadFailed(w)
    /\ inbox' = Resolve(Reply("enable", ret'.success, calls[w]))
    /\ calls' = [calls EXCEPT ![w] = NoCall]
    /\ UNCHANGED <<settings, checked>>

\* The interactive window closes and its panel goes with it.
PanelClosed ==
    /\ MainWindowClosed
    /\ inbox' = <<>>
    /\ UNCHANGED <<settings, checked, calls>>

GuiNext ==
    \/ CreateSpoutControls /\ UNCHANGED notGui
    \/ CheckEnableUnavailable /\ UNCHANGED notGui
    \/ \E c \in BOOLEAN : CheckEnableExisting(c) /\ UNCHANGED notGui
    \/ CheckEnableCreate /\ UNCHANGED notGui
    \/ UncheckEnable /\ UNCHANGED notGui
    \/ EnableReturned /\ UNCHANGED notGui
    \/ DisableReturned /\ UNCHANGED notGui
    \/ \E name \in Names, throws \in BOOLEAN : onNameChange(name, throws) /\ UNCHANGED notGui
    \/ \E r \in Resolutions : onResolutionChange(r) /\ UNCHANGED notGui
    \/ \E k \in FrameSkips : onFrameSkipChange(k) /\ UNCHANGED notGui
    \/ \E w \in WindowIds, g \in BOOLEAN, c \in BOOLEAN :
          EnableLoadFinished(w, g, c) /\ UNCHANGED notGui
    \/ \E w \in WindowIds : EnableLoadFailed(w) /\ UNCHANGED notGui
    \/ PanelClosed /\ UNCHANGED notGui

GuiSpec == Init /\ [][GuiNext]_vars

\* The main process under any caller of the lifecycle and rename handlers.
NameNext ==
    \/ SpoutEnableUnavailable /\ UNCHANGED notMain
    \/ \E c \in BOOLEAN : SpoutEnableExisting(c) /\ UNCHANGED notMain
    \/ \E r \in Resolutions : SpoutEnableCreate(r) /\ UNCHANGED notMain
    \/ \E w \in WindowIds, g \in BOOLEAN, c \in BOOLEAN :
          LoadFinished(w, g, c) /\ UNCHANGED notMain
    \/ \E w \in WindowIds : LoadFailed(w) /\ UNCHANGED notMain
    \/ SpoutDisable /\ UNCHANGED notMain
    \/ \E name \in Names, throws \in BOOLEAN :
          UpdateName(name, throws) /\ UNCHANGED notMain
    \/ MainWindowClosed /\ UNCHANGED notMain

NameSpec == Init /\ [][NameNext]_vars

\* ------------------------------------------------------------ synchronizer
\* The sync:* channels: the interactive window sends a value, the main
\* process forwards it to the offscreen window if there is one, and the
\* offscreen page applies it when it receives it.
MaxWire == 1         \* forwarded messages the offscreen page has not received yet

\* Mutant: with no offscreen window the message is kept for the next one.
ForwardBuffered(kind, value) ==
    Append(wire, [kind |-> kind, value |-> value,
                  to |-> IF spoutWindow # 0 THEN spoutWindow
                         ELSE (Cardinality(Created) % MaxWindows) + 1])

\* ipcMain.on('sync:<kind>', (event, value) => {
\*   if (spoutWindow) spoutWindow.webContents.send('sync:<kind>', value) })
Forward(kind, value) ==
    IF spoutWindow # 0
    THEN Append(wire, [kind |-> kind, value |-> value, to |-> spoutWindow])
    ELSE wire

\* window.spoutAPI.sync<Kind>(value): ipcRenderer.send, then the main
\* process's handler.
Send(kind, value) ==
    /\ mainWindow
    /\ Len(wire) < MaxWire    \* bound
    /\ wire' = Forward(kind, value)

\* A setting changes on the interactive surface and the snapshot is sent.
SyncSettings(v) ==
    /\ v # live["settings"]
    /\ live' = [live EXCEPT !["settings"] = v]
    /\ Send("settings", v)
    /\ UNCHANGED <<mainVars, mirror, listening, requests, ticked>>

\* The scene changes on the interactive surface and the selection is sent.
SyncScene(s) ==
    /\ s # live["scene"]
    /\ live' = [live EXCEPT !["scene"] = s]
    /\ Send("scene", s)
    /\ UNCHANGED <<mainVars, mirror, listening, requests, ticked>>

\* The elapsed-time hint is sent.
SyncTime(t) ==
    /\ t # live["time"]
    /\ live' = [live EXCEPT !["time"] = t]
    /\ Send("time", t)
    /\ UNCHANGED <<mainVars, mirror, listening, requests, ticked>>

\* animate(): const audioData = analyzeAudio(settings);
\* if (appState.onAudioUpdate) appState.onAudioUpdate(audioData);
\* the callback sends the snapshot.
Tick(a) ==
    /\ live' = [live EXCEPT !["audio"] = a]
    /\ Send("audio", a)
    /\ ticked' = (ticked \/ (spoutWindow # 0 /\ listening = spoutWindow))
    /\ UNCHANGED <<mainVars, mirror, listening, requests>>

\* spoutAPI.onSceneRequest callback: the interactive surface answers
\* 'spout:request-scene' by sending its current scene selection.
RequestScene ==
    /\ requests > 0
    /\ requests' = requests - 1
    /\ Send("scene", live["scene"])
    /\ UNCHANGED <<mainVars, live, mirror, listening, ticked>>

\* The offscreen page has run far enough to register its spoutSync listeners.
Listen(w) ==
    /\ w = spoutWindow /\ windows[w].st = "open" /\ listening # w
    /\ listening' = w
    /\ UNCHANGED <<mainVars, live, mirror, wire, requests, ticked>>

\* A forwarded message arrives at its offscreen window: the page applies it
\* if its listeners are registered, otherwise it is lost.
Receive ==
    /\ wire # <<>>
    /\ wire' = Tail(wire)
    /\ mirror' = IF listening = Head(wire).to /\ windows[Head(wire).to].st = "open"
                 THEN [mirror EXCEPT ![Head(wire).kind] = Head(wire).value]
                 ELSE mirror
    /\ UNCHANGED <<mainVars, live, listening, requests, ticked>>

\* mainWindow.webContents.send('spout:request-scene'), reached when the
\* sender has been constructed and the interactive window exists.
SceneRequested ==
    IF sendersCreated' # sendersCreated /\ mainWindow THEN requests + 1 ELSE requests

\* The new offscreen window loads a fresh page.
SyncEnableCreate(resolution) ==
    /\ SpoutEnableCreate(resolution)
    /\ mirror' = SurfaceDefaults
    /\ ticked' = FALSE
    /\ UNCHANGED <<live, listening, wire, requests>>

SyncEnableExisting(ctorThrows) ==
    /\ SpoutEnableExisting(ctorThrows)
    /\ requests' = SceneRequested
    /\ UNCHANGED <<live, mirror, listening, wire, ticked>>

SyncLoadFinished(w, gone, ctorThrows) ==
    /\ LoadFinished(w, gone, ctorThrows)
    /\ requests' = SceneRequested
    /\ UNCHANGED <<live, mirror, listening, wire, ticked>>

\* Messages on their way to a window that is closed are discarded with it.
StillOpen(ws) == SelectSeq(wire, LAMBDA e : ws[e.to].st = "open")

SyncDisable ==
    /\ SpoutDisable
    /\ wire' = StillOpen(windows')
    /\ listening' = 0
    /\ UNCHANGED <<live, mirror, requests, ticked>>

\* The interactive window closes: its pending requests go with it.
SyncMainWindowClosed ==
    /\ MainWindowClosed
    /\ wire' = StillOpen(windows')
    /\ listening' = 0
    /\ requests' = 0
    /\ UNCHANGED <<live, mirror, ticked>>

SyncNext ==
    \/ SpoutEnableUnavailable /\ UNCHANGED <<syncVars, notSync>>
    \/ \E c \in BOOLEAN : SyncEnableExisting(c) /\ UNCHANGED notSync
    \/ \E r \in Resolutions : SyncEnableCreate(r) /\ UNCHANGED notSync
    \/ \E w \in WindowIds, g \in BOOLEAN, c \in BOOLEAN :
          SyncLoadFinished(w, g, c) /\ UNCHANGED notSync
    \/ \E w \in WindowIds : LoadFailed(w) /\ UNCHANGED <<syncVars, notSync>>
    \/ SyncDisable /\ UNCHANGED notSync
    \/ SyncMainWindowClosed /\ UNCHANGED notSync
    \/ \E v \in Levels : SyncSettings(v) /\ UNCHANGED notSync
    \/ \E s \in Levels : SyncScene(s) /\ UNCHANGED notSync
    \/ \E t \in Levels : SyncTime(t) /\ UNCHANGED notSync
    \/ \E a \in Levels : Tick(a) /\ UNCHANGED notSync
    \/ RequestScene /\ UNCHANGED notSync
    \/ \E w \in WindowIds : Listen(w) /\ UNCHANGED notSync
    \/ Receive /\ UNCHANGED notSync

SyncSpec == Init /\ [][SyncNext]_vars

\* The channels with one enable/disable cycle after another and nothing else
\* of the main process.
WireNext ==
    \/ \E r \in Resolutions : SyncEnableCreate(r) /\ UNCHANGED notSync
    \/ \E w \in WindowIds, g \in BOOLEAN, c \in BOOLEAN :
          SyncLoadFinished(w, g, c) /\ UNCHANGED notSync
    \/ SyncDisable /\ UNCHANGED notSync
    \/ \E v \in Levels : SyncSettings(v) /\ UNCHANGED notSync
    \/ \E s \in Levels : SyncScene(s) /\ UNCHANGED notSync
    \/ \E t \in Levels : SyncTime(t) /\ UNCHANGED notSync
    \/ \E a \in Levels : Tick(a) /\ UNCHANGED notSync
    \/ RequestScene /\ UNCHANGED notSync
    \/ \E w \in WindowIds : Listen(w) /\ UNCHANGED notSync
    \/ Receive /\ UNCHANGED notSync

WireSpec == Init /\ [][WireNext]_vars

\* ---------------------------------------------------------------- particles
\* Mutant: the cursor advances without wrapping.
NextSpawnIndexUnwrapped(n) == spawnIndex + nbToSpawn

\* spawnIndex.value = (spawnIndex.value + nbToSpawn.value) % nbParticles
NextSpawnIndex(n) == (spawnIndex + nbToSpawn) % n

\* The standalone entry's particle simulation: the host's animate() sets the
\* uniforms and dispatches the Update pass and the Spawn pass; an invocation of
\* the Update pass ages its own particle and then scans all the others.
\* animate(), up to renderer.compute(updateParticles).
Animate(bass, overall, dt) ==
    /\ pass = "host"
    /\ nbToSpawn' = NbToSpawn(500, bass, 1, 50)
    /\ particleLifetime' = ParticleLifetime(overall)
    /\ deltaTime' = dt
    /\ pass' = "update"
    /\ pending' = ParticleIds
    /\ linking' = {}
    /\ closest1' = [p \in ParticleIds |-> NoParticle]
    /\ closest2' = [p \in ParticleIds |-> NoParticle]
    /\ UNCHANGED <<life, position, spawnIndex, linkOpacity1, linkOpacity2>>

\* Mutant: ageing adds to life.
AgedLifeGrows(l) == l + (deltaTime * 2) \div particleLifetime

\* life.subAssign(dt.mul(particleLifetime.reciprocal()))
AgedLife(l) == l - (deltaTime * 2) \div particleLifetime

\* An invocation of updateParticles up to the neighbour Loop: nothing for a
\* particle with life <= 0, otherwise it moves and ages its own particle.
Age(p, moved) ==
    /\ pass = "update"
    /\ p \in pending
    /\ pending' = pending \ {p}
    /\ IF life[p] > 0
       THEN /\ position' = [position EXCEPT ![p] = moved]
            /\ life' = [life EXCEPT ![p] = AgedLife(life[p])]
            /\ linking' = linking \cup {p}
       ELSE /\ moved = position[p]
            /\ UNCHANGED <<life, position, linking>>
    /\ UNCHANGED <<pass, closest1, closest2, linkOpacity1, linkOpacity2, spawnIndex, nbToSpawn,
                   particleLifetime, deltaTime>>

Dist(p, i) == (position[p] - position[i]) * (position[p] - position[i])

\* If(i.notEqual(instanceIndex).and(otherPart.w.greaterThan(0.0)))
Candidate(p, i) == i # p /\ life[i] > 0

\* The neighbour Loop from slot i on, over the buffer as it is when read.
RECURSIVE Closest(_, _, _)
Closest(p, i, acc) ==
    IF i = NbParticles THEN acc
    ELSE IF ~Candidate(p, i) THEN Closest(p, i + 1, acc)
    ELSE IF Dist(p, i) < acc.dist1 /\ Dist(p, i) > 0
         THEN Closest(p, i + 1, [acc EXCEPT !.dist1 = Dist(p, i), !.part1 = i,
                                            !.life1 = life[i]])
    ELSE IF Dist(p, i) < acc.dist2 /\ Dist(p, i) > 0
         THEN Closest(p, i + 1, [acc EXCEPT !.dist2 = Dist(p, i), !.part2 = i,
                                            !.life2 = life[i]])
    ELSE Closest(p, i + 1, acc)

\* const closestDist1 = float(10000.0), closestLife1 = float(0.0), ...
NoneFound == [dist1 |-> FarAway, part1 |-> NoParticle, life1 |-> 0,
              dist2 |-> FarAway, part2 |-> NoParticle, life2 |-> 0]

AtLeast(a, b) == IF a > b THEN a ELSE b

AtMost(a, b) == IF a < b THEN a ELSE b

\* Mutant: the opacity follows the neighbour's life alone.
LinkOpacityOfNeighbour(closestLife, ownLife) == AtLeast(0, closestLife)

\* max(0.0, min(closestLife, life)), the argument of pow(0.8): the opacity
\* written is 0 exactly when this is 0.
LinkOpacity(closestLife, ownLife) == AtLeast(0, AtMost(closestLife, ownLife))

\* The rest of the invocation: the Loop and the link records.
Link(p) ==
    /\ pass = "update"
    /\ p \in linking
    /\ linking' = linking \ {p}
    /\ LET c == Closest(p, 0, NoneFound)
       IN /\ closest1' = [closest1 EXCEPT ![p] = c.part1]
          /\ closest2' = [closest2 EXCEPT ![p] = c.part2]
          /\ linkOpacity1' = [linkOpacity1 EXCEPT ![p] = LinkOpacity(c.life1, life[p])]
          /\ linkOpacity2' = [linkOpacity2 EXCEPT ![p] = LinkOpacity(c.life2, life[p])]
    /\ UNCHANGED <<life, position, pass, pending, spawnIndex, nbToSpawn,
                   particleLifetime, deltaTime>>

\* The slots the Spawn pass writes: spawnIndex.add(instanceIndex).mod(nbParticles)
\* for the invocations fixed by .compute(nbToSpawn.value) at build time.
SpawnSlots == {(spawnIndex + i) % NbParticles : i \in 0..(SpawnDispatch - 1)}

\* renderer.compute(spawnParticles), then
\* spawnIndex.value = (spawnIndex.value + nbToSpawn.value) % nbParticles.
Spawn(at) ==
    /\ pass = "update"
    /\ pending = {} /\ linking = {}
    /\ life' = [p \in ParticleIds |-> IF p \in SpawnSlots THEN LifeUnits ELSE life[p]]
    /\ position' = [p \in ParticleIds |-> IF p \in SpawnSlots THEN at ELSE position[p]]
    /\ spawnIndex' = NextSpawnIndex(NbParticles)
    /\ pass' = "host"
    /\ UNCHANGED <<pending, linking, closest1, closest2, linkOpacity1, linkOpacity2, nbToSpawn,
                   particleLifetime, deltaTime>>

\* The ticks are taken at bass 0; the spawn ring follows the spawn rate.
ParticleNext ==
    \/ \E o \in ScalarLevels, dt \in 0..MaxDt :
          Animate(0, o, dt) /\ UNCHANGED notParticle
    \/ \E p \in ParticleIds, m \in Positions : Age(p, m) /\ UNCHANGED notParticle
    \/ \E p \in ParticleIds : Link(p) /\ UNCHANGED notParticle
    \/ \E at \in Positions : Spawn(at) /\ UNCHANGED notParticle

ParticleSpec == Init /\ [][ParticleNext]_vars

\* ------------------------------------------------------------- spawn rate
\* input.step = (s.max - s.min) / 100; input.oninput: s.value =
\* parseFloat(input.value), the k-th position of the slider.
SliderValue(s, k) == s.min + k * ((s.max - s.min) \div 100)

BaseSpawnRateInput(k) ==
    /\ spawnSettings' = [spawnSettings EXCEPT
                            !.baseSpawnRate = SliderValue(SpawnSettings.baseSpawnRate, k)]
    /\ spawnSettings' # spawnSettings
    /\ UNCHANGED sceneTick

BassSpawnRateInput(k) ==
    /\ spawnSettings' = [spawnSettings EXCEPT
                            !.bassSpawnRate = SliderValue(SpawnSettings.bassSpawnRate, k)]
    /\ spawnSettings' # spawnSettings
    /\ UNCHANGED sceneTick

\* animate(): const bass = audioBass.value; nbToSpawn.value =
\* Math.floor(settings.baseSpawnRate.value + bass * settings.bassSpawnRate.value)
SceneAnimate(bass) ==
    /\ sceneTick' = [base |-> spawnSettings.baseSpawnRate,
                     gain |-> spawnSettings.bassSpawnRate,
                     bass |-> bass,
                     nbToSpawn |-> NbToSpawn(spawnSettings.baseSpawnRate, bass, BassDen,
                                             spawnSettings.bassSpawnRate)]
    /\ UNCHANGED spawnSettings

RateNext ==
    \/ \E k \in 0..MaxSliderStep : BaseSpawnRateInput(k) /\ UNCHANGED notRate
    \/ \E k \in 0..MaxSliderStep : BassSpawnRateInput(k) /\ UNCHANGED notRate
    \/ \E b \in 0..BassDen : SceneAnimate(b) /\ UNCHANGED notRate

RateSpec == Init /\ [][RateNext]_vars

\* ------------------------------------------------------------------- audio
\* The frequency data of one tick: bin i (from 0) has the level of its stretch.
Spectrum(levels) == [i \in 1..BinCount |-> levels[((i - 1) * Segments) \div BinCount]]

\* Sum of the bytes of bins from..to-1 (bins counted from 0).
RECURSIVE BandSum(_, _, _)
BandSum(data, from, to) ==
    IF from >= to THEN 0 ELSE data[from + 1] + BandSum(data, from + 1, to)

\* Sum over the band of dataArray[i] / 255, divided by the band's bin count.
BandNorm(data, from, to) == Frac(BandSum(data, from, to), 255 * (to - from))

\* Math.min(norm * sensitivity, 1)
Sensed(norm, sens) ==
    IF norm.num * sens >= norm.den * 1000 THEN Frac(1, 1)
    ELSE Frac(norm.num * sens, norm.den * 1000)

\* (bass + mid + high) / 3
Overall(b, m, h) ==
    Frac(b.num * m.den * h.den + m.num * b.den * h.den + h.num * b.den * m.den,
         3 * b.den * m.den * h.den)

\* analyzeAudio with an analyser: bassEnd = Math.floor(len * 0.08),
\* midEnd = Math.floor(len * 0.4).
Analyze(data) ==
    LET len == Len(data)
        bassEnd == (len * 8) \div 100
        midEnd == (len * 4) \div 10
        bass == Sensed(BandNorm(data, 0, bassEnd), sensitivity["bass"])
        mid == Sensed(BandNorm(data, bassEnd, midEnd), sensitivity["mid"])
        high == Sensed(BandNorm(data, midEnd, len), sensitivity["high"])
    IN [bass |-> bass, mid |-> mid, high |-> high, overall |-> Overall(bass, mid, high)]

\* updateAudioData with an analyser: bassEnd = Math.floor(len * 0.1),
\* midEnd = Math.floor(len * 0.5); each band's mean times 2.
Doubled(norm) == Frac(norm.num * 2, norm.den)

UpdateAudio(data) ==
    LET len == Len(data)
        bassEnd == len \div 10
        midEnd == len \div 2
        bass == Doubled(BandNorm(data, 0, bassEnd))
        mid == Doubled(BandNorm(data, bassEnd, midEnd))
        high == Doubled(BandNorm(data, midEnd, len))
    IN [bass |-> bass, mid |-> mid, high |-> high, overall |-> Overall(bass, mid, high)]

\* initAudio of the application: analyser and dataArray are set.
InitAudio ==
    /\ ~analyser
    /\ analyser' = TRUE
    /\ UNCHANGED <<sensitivity, audioData, mainAnalyser, audioUniforms, sharedUniforms>>

\* closeAudio: analyser = null; dataArray = null.
CloseAudio ==
    /\ analyser
    /\ analyser' = FALSE
    /\ UNCHANGED <<sensitivity, audioData, mainAnalyser, audioUniforms, sharedUniforms>>

\* A sensitivity slider is moved to its k-th position.
SensitivityInput(band, k) ==
    /\ sensitivity' = [sensitivity EXCEPT ![band] = SliderValue(Sensitivity, k)]
    /\ sensitivity' # sensitivity
    /\ UNCHANGED <<analyser, audioData, mainAnalyser, audioUniforms, sharedUniforms>>

\* updateAudioUniforms({ bass, mid, high, overall }): the four uniforms take
\* the four values.
updateAudioUniforms(scalars) ==
    [bass |-> scalars.bass, mid |-> scalars.mid, high |-> scalars.high,
     overall |-> scalars.overall]

\* analyzeAudio(settings) on a tick; getByteFrequencyData fills dataArray.
\* Without an analyser it returns at once, before updateAudioUniforms.
AnalyzeAudio(levels) ==
    /\ audioData' = IF analyser
                    THEN [scalars |-> Analyze(Spectrum(levels)), analysed |-> TRUE]
                    ELSE [scalars |-> Silence, analysed |-> FALSE]
    /\ sharedUniforms' = IF analyser
                         THEN updateAudioUniforms(Analyze(Spectrum(levels)))
                         ELSE sharedUniforms
    /\ analyser \/ \A g \in DOMAIN levels : levels[g] = 0
    /\ UNCHANGED <<analyser, sensitivity, mainAnalyser, audioUniforms>>

\* initAudio of the standalone entry.
MainInitAudio ==
    /\ ~mainAnalyser
    /\ mainAnalyser' = TRUE
    /\ UNCHANGED <<analyser, sensitivity, audioData, audioUniforms, sharedUniforms>>

\* updateAudioData() on a tick of the standalone entry: returns at once
\* without an analyser, otherwise assigns the four uniforms.
UpdateAudioData(levels) ==
    /\ audioUniforms' = IF mainAnalyser
                        THEN [scalars |-> UpdateAudio(Spectrum(levels)), analysed |-> TRUE]
                        ELSE audioUniforms
    /\ mainAnalyser \/ \A g \in DOMAIN levels : levels[g] = 0
    /\ UNCHANGED <<analyser, sensitivity, audioData, mainAnalyser, sharedUniforms>>

AudioNext ==
    \/ InitAudio /\ UNCHANGED notAudio
    \/ CloseAudio /\ UNCHANGED notAudio
    \/ \E b \in Bands, k \in {0, 100} : SensitivityInput(b, k) /\ UNCHANGED notAudio
    \/ \E l \in [0..(Segments - 1) -> ByteLevels] : AnalyzeAudio(l) /\ UNCHANGED notAudio
    \/ MainInitAudio /\ UNCHANGED notAudio
    \/ \E l \in [0..(Segments - 1) -> ByteLevels] : UpdateAudioData(l) /\ UNCHANGED notAudio

AudioSpec == Init /\ [][AudioNext]_vars

\* ------------------------------------------------------------ spawn ring
\* The life component of the particle buffer as a ring with more slots than
\* one Spawn dispatch covers, the passes of a tick taken whole: animate()
\* sets the uniforms, the Update pass ages every live slot, the Spawn pass
\* runs its invocations, and the host then advances the cursor.
RingSize == 8

RingIds == 0..(RingSize - 1)

\* const nbToSpawn = uniform(5): the value .compute(nbToSpawn.value) reads
\* when the Spawn pass is built, which fixes its dispatch count.
NbToSpawnAtBuild == 5

\* audioBass.value is taken in steps of 1/RingBassDen.
RingBassDen == 25

RingInit ==
    /\ MainInit
    /\ GuiInit
    /\ SyncInit
    /\ RateInit
    /\ AudioInit
    /\ RendererInit
    /\ life = [s \in RingIds |-> -LifeUnits]
    /\ position = [p \in ParticleIds |-> MaxPosition]
    /\ pass = "host"
    /\ pending = {}
    /\ linking = {}
    /\ closest1 = [p \in ParticleIds |-> NoParticle]
    /\ closest2 = [p \in ParticleIds |-> NoParticle]
    /\ linkOpacity1 = [p \in ParticleIds |-> 0]
    /\ linkOpacity2 = [p \in ParticleIds |-> 0]
    /\ spawnIndex = 0
    /\ nbToSpawn = NbToSpawnAtBuild
    /\ particleLifetime = 1
    /\ deltaTime = 0

\* Mutant: the host dispatches the Spawn pass before the Update pass.
HostOrderSpawnFirst(p) ==
    CASE p = "host" -> "spawn"
      [] p = "spawn" -> "update"
      [] p = "update" -> "advance"
      [] p = "advance" -> "host"

\* renderer.compute(updateParticles); renderer.compute(spawnParticles);
\* spawnIndex.value = ...: the order of the statements of animate().
HostOrder(p) ==
    CASE p = "host" -> "update"
      [] p = "update" -> "spawn"
      [] p = "spawn" -> "advance"
      [] p = "advance" -> "host"

\* animate(), up to the first renderer.compute.
RingAnimate(bassNum, overall, dt) ==
    /\ pass = "host"
    /\ nbToSpawn' = NbToSpawn(500, bassNum, RingBassDen, 50)
    /\ particleLifetime' = ParticleLifetime(overall)
    /\ deltaTime' = dt
    /\ pass' = HostOrder(pass)
    /\ UNCHANGED <<life, position, pending, linking, closest1, closest2, linkOpacity1, linkOpacity2, spawnIndex>>

\* renderer.compute(updateParticles): every invocation with life > 0 ages
\* its own slot.
RingUpdate ==
    /\ pass = "update"
    /\ life' = [s \in RingIds |-> IF life[s] > 0 THEN AgedLife(life[s]) ELSE life[s]]
    /\ pass' = HostOrder(pass)
    /\ UNCHANGED <<position, pending, linking, closest1, closest2, linkOpacity1, linkOpacity2, spawnIndex,
                   nbToSpawn, particleLifetime, deltaTime>>

\* particleIndex = spawnIndex.add(instanceIndex).mod(nbParticles) for the
\* instanceIndex values of the dispatch.
RingSpawnSlots == {(spawnIndex + i) % RingSize : i \in 0..(NbToSpawnAtBuild - 1)}

\* renderer.compute(spawnParticles): life.assign(1.0) in each of its slots.
RingSpawn ==
    /\ pass = "spawn"
    /\ life' = [s \in RingIds |-> IF s \in RingSpawnSlots THEN LifeUnits ELSE life[s]]
    /\ pass' = HostOrder(pass)
    /\ UNCHANGED <<position, pending, linking, closest1, closest2, linkOpacity1, linkOpacity2, spawnIndex,
                   nbToSpawn, particleLifetime, deltaTime>>

\* spawnIndex.value = (spawnIndex.value + nbToSpawn.value) % nbParticles
RingAdvance ==
    /\ pass = "advance"
    /\ spawnIndex' = NextSpawnIndex(RingSize)
    /\ pass' = HostOrder(pass)
    /\ UNCHANGED <<life, position, pending, linking, closest1, closest2, linkOpacity1, linkOpacity2,
                   nbToSpawn, particleLifetime, deltaTime>>

RingNext ==
    \/ \E b \in 0..1, o \in ScalarLevels, dt \in 0..MaxDt :
          RingAnimate(b, o, dt) /\ UNCHANGED notParticle
    \/ RingUpdate /\ UNCHANGED notParticle
    \/ RingSpawn /\ UNCHANGED notParticle
    \/ RingAdvance /\ UNCHANGED notParticle

RingSpec == RingInit /\ [][RingNext]_vars

\* ------------------------------------------------------- neighbour scan
\* The neighbour Loop of updateParticles taken as a function of the
\* position and life buffers: every arrangement of the buffers is an
\* initial state, taken in the Update pass after all particles have aged
\* and before any has scanned, and Link applies the scan to it.
MaxScanPosition == 3

ScanPositions == 0..MaxScanPosition

ScanInit ==
    /\ MainInit
    /\ GuiInit
    /\ SyncInit
    /\ RateInit
    /\ AudioInit
    /\ RendererInit
    /\ life \in [ParticleIds -> {0, LifeUnits}]
    /\ position \in [ParticleIds -> ScanPositions]
    /\ pass = "update"
    /\ pending = {}
    /\ linking = {p \in ParticleIds : life[p] > 0}
    /\ closest1 = [p \in ParticleIds |-> NoParticle]
    /\ closest2 = [p \in ParticleIds |-> NoParticle]
    /\ linkOpacity1 = [p \in ParticleIds |-> 0]
    /\ linkOpacity2 = [p \in ParticleIds |-> 0]
    /\ spawnIndex = 0
    /\ nbToSpawn = 5
    /\ particleLifetime = 1
    /\ deltaTime = 0

ScanNext ==
    \E p \in ParticleIds : Link(p) /\ UNCHANGED notParticle

ScanSpec == ScanInit /\ [][ScanNext]_vars

\* ---------------------------------------------------------------- renderer
\* initRenderer up to its first await, called directly or by
\* initVisualization (which calls it only while appState.isInitialized is
\* false): without WebGPU it throws, once initialized it returns the existing
\* setup, otherwise it creates camera and renderer, appends the canvas and
\* suspends at await renderer.init().
InitRendererCall(via) ==
    /\ via = "visualization" => ~appInitialized
    /\ IF ~webgpu
       THEN /\ rendererRet' = "no-webgpu"
            /\ rendererRet' # rendererRet
            /\ UNCHANGED <<renderer, camera, controls, isInitialized, appInitialized,
                           canvases, renderersCreated, initAwaiting>>
       ELSE IF isInitialized
       THEN /\ rendererRet' = "setup"
            /\ appInitialized' = (appInitialized \/ via = "visualization")
            /\ <<rendererRet', appInitialized'>> # <<rendererRet, appInitialized>>
            /\ UNCHANGED <<renderer, camera, controls, isInitialized, canvases,
                           renderersCreated, initAwaiting>>
       ELSE /\ renderersCreated < MaxRenderers    \* bound
            /\ renderersCreated' = renderersCreated + 1
            /\ camera' = renderersCreated + 1
            /\ renderer' = renderersCreated + 1
            /\ canvases' = canvases \cup {renderersCreated + 1}
            /\ initAwaiting' = [initAwaiting EXCEPT ![via] = @ + 1]
            /\ UNCHANGED <<controls, isInitialized, appInitialized, rendererRet>>
    /\ UNCHANGED webgpu

\* catch (err): remove renderer.domElement from its parent, null renderer,
\* camera and controls, show the error, rethrow.
CatchInit ==
    /\ canvases' = canvases \ {renderer}
    /\ renderer' = 0
    /\ camera' = 0
    /\ controls' = 0
    /\ rendererRet' = "failed"
    /\ UNCHANGED <<isInitialized, appInitialized>>

\* A suspended call goes on after await renderer.init(): the promise was
\* rejected, or new OrbitControls(camera, renderer.domElement) reads the
\* module variables, which throws when another call's catch has nulled them.
InitRendererResume(via, resolved) ==
    /\ initAwaiting[via] > 0
    /\ initAwaiting' = [initAwaiting EXCEPT ![via] = @ - 1]
    /\ IF resolved /\ renderer # 0
       THEN /\ controls' = renderer
            /\ isInitialized' = TRUE
            /\ appInitialized' = (appInitialized \/ via = "visualization")
            /\ rendererRet' = "setup"
            /\ UNCHANGED <<renderer, camera, canvases>>
       ELSE CatchInit
    /\ UNCHANGED <<webgpu, renderersCreated>>

\* The cleanup function initVisualization returned: setAnimationLoop(null);
\* appState.isInitialized = false.
Cleanup ==
    /\ appInitialized
    /\ appInitialized' = FALSE
    /\ UNCHANGED <<webgpu, renderer, camera, controls, isInitialized, canvases,
                   renderersCreated, initAwaiting, rendererRet>>

RendererNext ==
    \/ \E via \in Callers : InitRendererCall(via) /\ UNCHANGED notRenderer
    \/ \E via \in Callers, resolved \in BOOLEAN :
          InitRendererResume(via, resolved) /\ UNCHANGED notRenderer
    \/ Cleanup /\ UNCHANGED notRenderer

\* Every browser, with and without WebGPU.
RendererSpecInit ==
    /\ MainInit
    /\ GuiInit
    /\ SyncInit
    /\ ParticleInit
    /\ RateInit
    /\ AudioInit
    /\ webgpu \in BOOLEAN
    /\ RendererModuleInit

RendererSpec == RendererSpecInit /\ [][RendererNext]_vars

\* ------------------------------------------------------------------ claims
FramesForwarded == texturePathCount + bitmapPathCount

Disabled == ~spoutEnabled /\ spoutSender = 0 /\ spoutWindow = 0

NoOpenSurface == \A w \in WindowIds : windows[w].st # "open"

NoPaintedSurface == \A w \in WindowIds : ~(windows[w].st = "open" /\ windows[w].painting)

\* C1: whenever spout:get-status reports false, no offscreen surface exists
\* that is painting for streaming, and no step taken while it reports false
\* forwards a frame to the sender.
C1_InactiveMeansIdle ==
    /\ [](~GetStatus => NoPaintedSurface)
    /\ [][~GetStatus => FramesForwarded' = FramesForwarded]_vars

\* C2: while the session is active a sender is held, and no sender is ever
\* constructed while a previously constructed one is still held.
C2_AtMostOneSender ==
    /\ [](spoutEnabled => spoutSender # 0)
    /\ [][sendersCreated' # sendersCreated => spoutSender = 0]_vars

\* C3: when disable is the last lifecycle call issued, no sender handle is
\* held, both right after it returns and after every enable that was in
\* flight has run to completion.
C3_DisableReleasesSenders == lastCtl = "disable" => spoutSender = 0

\* An enable that was in flight when disable was called has completed, in a
\* run that had constructed a sender.
C3_Witness ==
    /\ lastCtl = "disable"
    /\ ret.op = "enable"
    /\ awaiting = {}
    /\ sendersCreated > 0
\* The sum of the last n entries of sequence s.
RECURSIVE SumLast(_, _)
SumLast(s, n) ==
    IF n = 0 \/ Len(s) = 0 THEN 0
    ELSE s[Len(s)] + SumLast(SubSeq(s, 1, Len(s) - 1), n - 1)

\* C4: in an active session whose frameSkip has stayed k, with every paint
\* carrying a texture or a bitmap, the last k+1 consecutive paints of the
\* session's offscreen surface forwarded exactly one frame between them.
C4_OneFramePerWindow ==
    (spoutEnabled /\ spoutSender # 0 /\ Len(recent) >= frameSkip + 1)
        => SumLast(recent, frameSkip + 1) = 1

\* C5: every paint raises the paint counter by exactly one and forwards at
\* most one frame; a frame is forwarded only at a counter value that is a
\* multiple of frameSkip + 1 (with frameSkip = 2: paints #3, #6, #9, ...), and
\* a paint of the active session's surface that carries a texture or a bitmap
\* at such a counter value is forwarded.
C5_ForwardEveryThirdPaint ==
    [][paintCount' # paintCount =>
          /\ paintCount' = paintCount + 1
          /\ FramesForwarded' - FramesForwarded \in {0, 1}
          /\ (FramesForwarded' # FramesForwarded => paintCount' % (frameSkip + 1) = 0)
          /\ (recent' # recent /\ recent' # <<>> /\ paintCount' % (frameSkip + 1) = 0)
                => FramesForwarded' # FramesForwarded
      ]_vars

\* C6: when disable is the last lifecycle call issued, including a disable
\* issued while an enable was awaiting the surface load, the session is
\* Disabled, no offscreen surface is open and no paint listener or painting
\* surface is left; and from then on no step forwards a frame, registers a
\* paint listener or starts a surface painting.
C6_DisableWhileEnablingIsSafe ==
    /\ [](lastCtl = "disable" =>
            /\ Disabled
            /\ NoOpenSurface
            /\ \A w \in WindowIds : windows[w].handlers = 0 /\ ~windows[w].painting)
    /\ [][(lastCtl = "disable" /\ lastCtl' = "disable") =>
            /\ FramesForwarded' = FramesForwarded
            /\ windows' = windows
            /\ sendersCreated' = sendersCreated]_vars

\* The enable that was awaiting its surface when disable was called has run to
\* completion and reported failure.
C6_Witness ==
    /\ lastCtl = "disable"
    /\ awaiting = {}
    /\ ret.op = "enable"
    /\ ~ret.success
    /\ \E w \in WindowIds : windows[w].st = "closed"

\* C7: an enable that returned {success: false, error} because the sender
\* could not be acquired (module missing, or the constructor threw) leaves
\* the session Disabled with no offscreen surface in existence, once no other
\* enable is in flight.
C7_FailedAcquireLeavesDisabled ==
    (/\ ret.op = "enable" /\ ~ret.success
     /\ ret.error \in {"not-available", "sender"}
     /\ awaiting = {})
        => (Disabled /\ NoOpenSurface)

\* C8: an enable whose surface load failed leaves the session Disabled with
\* no surface and no sender, and a session that reports active with no enable
\* still in flight has a surface that paints into a paint listener.
C8_LoadFailureReturnsToDisabled ==
    /\ (ret.op = "enable" /\ ret.error = "load") => (Disabled /\ NoOpenSurface)
    /\ (spoutEnabled /\ awaiting = {} /\ mainWindow) =>
          /\ spoutWindow # 0
          /\ windows[spoutWindow].painting
          /\ windows[spoutWindow].handlers >= 1

\* C9: a paint in which a sender call threw leaves the session as it was
\* (active, same sender, same surface and listeners, same frameSkip), and the
\* counters that pace later frames are what the same paint leaves when
\* nothing throws.
C9_FrameErrorKeepsSession ==
    [][updateErrors' # updateErrors =>
          /\ spoutEnabled /\ spoutEnabled'
          /\ spoutSender # 0 /\ spoutSender' = spoutSender
          /\ spoutWindow' = spoutWindow
          /\ windows' = windows
          /\ frameSkip' = frameSkip
          /\ \E w \in WindowIds, texture \in BOOLEAN, image \in BOOLEAN :
                LET m == EmitPaint(ModuleState, 1, windows[w].handlers,
                                   texture, image, {}) IN
                  /\ paintCount' = m.paintCount
                  /\ texturePathCount' = m.texturePathCount
                  /\ bitmapPathCount' = m.bitmapPathCount
      ]_vars

\* A session that caught a frame error is still active and has forwarded
\* another frame without error.
C9_Witness ==
    /\ updateErrors > 0
    /\ spoutEnabled
    /\ spoutSender # 0
    /\ FramesForwarded > updateErrors

\* C10: when the native module is missing, the notice has been shown exactly
\* once as soon as one enable attempt has been made, however many attempts
\* follow, and the session is Disabled throughout.
C10_NoticeShownOnce ==
    ~spoutAvailable =>
        /\ dialogsShown = (IF unavailableAttempts > 0 THEN 1 ELSE 0)
        /\ hasShownSpoutDialog = (unavailableAttempts > 0)
        /\ Disabled
        /\ NoOpenSurface

\* Several attempts were made and one notice was shown.
C10_Witness ==
    /\ ~spoutAvailable
    /\ unavailableAttempts >= 2
    /\ dialogsShown = 1
    /\ ret = Return("enable", FALSE, "not-available")
\* ---------------------------------------------------------------- C11 - C14
\* The entry a step has just added to inbox.
Resolved == inbox'[Len(inbox')]

EnableSucceeded ==
    Len(inbox') = Len(inbox) + 1 /\ Resolved.op = "enable" /\ Resolved.success

\* With frame-skip skip in effect, frames are forwarded on 1 of every k+1
\* paints: exactly the paints whose number is a multiple of k+1.
Paces(skip, k) ==
    \A pc \in 1..(2 * (MaxFrameSkip + 1)) : SkipFrame(pc, skip) <=> pc % (k + 1) # 0

\* C11: when enable(resolution, frameSkip = k) returns success, the frame-skip
\* in effect is k (frames are forwarded on 1 of every k+1 paints), whatever
\* frame-skip an earlier session used or the panel was set to while Disabled.
C11_EnableSetsFrameSkip ==
    [][EnableSucceeded => Paces(frameSkip', Resolved.frameSkip)]_vars

\* C12: the sender a successful enable constructs advertises the sender name
\* configured in the settings at that moment, whatever name changes were made
\* before enabling, including those made while the session was Disabled.
C12_SenderTakesConfiguredName ==
    [][(sendersCreated' = sendersCreated + 1 /\ ret'.op = "enable" /\ ret'.success)
          => senderNames'[spoutSender'] = settings.spoutSenderName]_vars

Active == spoutEnabled /\ spoutSender # 0 /\ spoutWindow # 0

\* A step of the rename handler.
Renamed ==
    /\ ret'.op = "update-name"
    /\ ret.op # "update-name" \/ spoutSenderName' # spoutSenderName
         \/ senderNames' # senderNames \/ sendersCreated' # sendersCreated

\* C13: a rename while the session is Active keeps the same sender handle, the
\* same offscreen surface with its listeners, and the session Active; it
\* constructs no sender and closes no window; the one thing it may change of
\* the session is the name the held sender advertises, which becomes the new
\* name.
C13_RenameKeepsSession ==
    [][(Active /\ Renamed) =>
          /\ spoutSender' = spoutSender
          /\ sendersCreated' = sendersCreated
          /\ spoutWindow' = spoutWindow
          /\ windows' = windows
          /\ awaiting' = awaiting
          /\ spoutEnabled'
          /\ frameSkip' = frameSkip
          /\ \A i \in SenderIds : i # spoutSender => senderNames'[i] = senderNames[i]
          /\ senderNames'[spoutSender] \in {senderNames[spoutSender], spoutSenderName'}
      ]_vars

\* The last handler to complete was a rename of an Active session, and the
\* held sender advertises the new, non-default name.
C13_Witness ==
    /\ Active
    /\ ret.op = "update-name"
    /\ spoutSenderName = "VJ"
    /\ senderNames[spoutSender] = "VJ"
    /\ windows[spoutWindow].st = "open" /\ windows[spoutWindow].painting

\* C14: whenever the session is Active its offscreen surface has the pixel
\* dimensions of the resolution configured in the settings (a change of
\* resolution while Active tears the session down and recreates it at the
\* new size), and the dimensions of an open surface never change.
C14_ActiveSurfaceHasConfiguredSize ==
    /\ []((Active /\ windows[spoutWindow].st = "open") =>
            /\ windows[spoutWindow].width = Width(settings.spoutResolution)
            /\ windows[spoutWindow].height = Height(settings.spoutResolution))
    /\ [][\A w \in WindowIds :
            (windows[w].st = "open" /\ windows'[w].st = "open") =>
                /\ windows'[w].width = windows[w].width
                /\ windows'[w].height = windows[w].height]_vars

\* C15: every sync message is delivered at most once and is never buffered
\* or retried.  A step puts at most one message on the way to the offscreen
\* page, only while an offscreen window exists, addressed to that window and
\* carrying the value the interactive surface has at that step; with no
\* offscreen window nothing is put on the way.  Messages on the way are only
\* ever taken off, and the offscreen page's copies change only by applying
\* the oldest message on the way to the open window it was sent to, or by a
\* fresh page starting from the defaults.
C15_AtMostOnceNeverBuffered ==
    [][/\ Len(wire') <= Len(wire) + 1
       /\ Len(wire') = Len(wire) + 1 =>
             /\ SubSeq(wire', 1, Len(wire)) = wire
             /\ spoutWindow # 0
             /\ wire'[Len(wire')].to = spoutWindow
             /\ wire'[Len(wire')].value = live'[wire'[Len(wire')].kind]
       /\ (Len(wire') <= Len(wire) /\ wire' # wire) =>
             wire' \in {Tail(wire), StillOpen(windows')}
       /\ mirror' # mirror =>
             \/ /\ Cardinality(Created') = Cardinality(Created) + 1
                /\ mirror' = SurfaceDefaults
             \/ /\ wire # <<>>
                /\ wire' = Tail(wire)
                /\ windows[Head(wire).to].st = "open"
                /\ mirror' = [mirror EXCEPT ![Head(wire).kind] = Head(wire).value]]_vars

\* A settings change and a scene change were sent with no offscreen window;
\* a window was created afterwards, its page listens, a tick's audio reached
\* it, and the two dropped values have still not arrived.
C15_Witness ==
    /\ spoutWindow # 0
    /\ listening = spoutWindow
    /\ ticked
    /\ wire = <<>>
    /\ live["audio"] = 1 /\ mirror["audio"] = 1
    /\ live["settings"] = 1 /\ mirror["settings"] = 0
    /\ live["scene"] = 1 /\ mirror["scene"] = 0

Respawned(p) ==
    /\ pass = "update" /\ pass' = "host"
    /\ p \in SpawnSlots
    /\ life'[p] = LifeUnits

\* C17: for every particle, life never increases while the particle is live,
\* and once life <= 0 it stays <= 0, except in the step in which the Spawn
\* pass writes the slot, which sets life to 1.0.
C17_LifeOnlyRaisedBySpawn ==
    [][\A p \in ParticleIds :
          /\ (life[p] > 0 /\ life'[p] > life[p]) => Respawned(p)
          /\ (life[p] <= 0 /\ life'[p] > 0) => Respawned(p)]_vars

\* Between two ticks one particle has aged to life <= 0 and another is live
\* and has aged below 1.0.
C17_Witness ==
    /\ pass = "host"
    /\ \E p \in ParticleIds : life[p] <= 0 /\ life[p] > -LifeUnits
    /\ \E q \in ParticleIds : life[q] > 0 /\ life[q] < LifeUnits

\* C18: when the Update pass has finished, neither neighbour chosen for a
\* particle's links is the particle itself or a particle whose life is <= 0.
C18_NeighborsOtherAndAlive ==
    (pass = "update" /\ pending = {} /\ linking = {}) =>
        \A p \in ParticleIds : \A n \in {closest1[p], closest2[p]} :
            /\ n # p
            /\ n # NoParticle => life[n] > 0

\* nbToSpawn is the floor of base + bass * gain for the values the tick read.
FloorOfRate(t) ==
    /\ t.nbToSpawn * 100 * BassDen <= t.base * BassDen + t.bass * t.gain * 100
    /\ t.base * BassDen + t.bass * t.gain * 100 < (t.nbToSpawn + 1) * 100 * BassDen

\* With bass = 1, base spawn rate 5 and bass gain 50, nbToSpawn is 55.
ScenarioFiftyFive(t) ==
    (t.bass = BassDen /\ t.base = 500 /\ t.gain = 50) => t.nbToSpawn = 55

\* C20 as stated: each tick nbToSpawn = floor(baseSpawnRate + bass * gain);
\* it is 55 for bass 1, base 5 and gain 50; with bass = 0 it equals the base
\* spawn rate.
C20_SpawnRateAsStated ==
    /\ FloorOfRate(sceneTick)
    /\ ScenarioFiftyFive(sceneTick)
    /\ sceneTick.bass = 0 => sceneTick.nbToSpawn * 100 = sceneTick.base

\* C20, amended: each tick nbToSpawn = floor(baseSpawnRate + bass * gain); it
\* is 55 for bass 1, base 5 and gain 50; with bass = 0 it is the base spawn
\* rate rounded down to a whole number.
C20_SpawnRate ==
    /\ FloorOfRate(sceneTick)
    /\ ScenarioFiftyFive(sceneTick)
    /\ sceneTick.bass = 0 =>
          /\ sceneTick.nbToSpawn * 100 <= sceneTick.base
          /\ sceneTick.base < (sceneTick.nbToSpawn + 1) * 100

\* A tick with bass = 0 after the Base Spawn Rate slider was moved to 1.49.
C20_Witness ==
    /\ sceneTick.bass = 0
    /\ sceneTick.base = 149
    /\ sceneTick.nbToSpawn = 1

InUnit(x) == 0 <= x.num /\ x.num <= x.den

\* C19: the four audio scalars handed to the simulation on a tick each lie
\* in [0, 1], and are all 0 when the tick had no analyser; for the
\* application's analyzeAudio and for the standalone entry's updateAudioData.
C19_ScalarsInUnitRange ==
    \A a \in {audioData, audioUniforms} :
        /\ \A k \in {"bass", "mid", "high", "overall"} : InUnit(a.scalars[k])
        /\ ~a.analysed => a.scalars = Silence

\* C21: the neighbour scan of a live particle returns exactly the nearest
\* and the second-nearest other live particles at strictly positive
\* distance, as a reference that sorts the candidates by distance (ties to
\* the lower index) does, for every arrangement of the buffers.
Neighbours(p) == {i \in ParticleIds : Candidate(p, i) /\ Dist(p, i) > 0}

Nearer(p, i, j) == Dist(p, i) < Dist(p, j) \/ (Dist(p, i) = Dist(p, j) /\ i < j)

NearestOf(p, S) ==
    IF S = {} THEN NoParticle
    ELSE CHOOSE i \in S : \A j \in S \ {i} : Nearer(p, i, j)

Scanned(p) == life[p] > 0 /\ p \notin linking

C21_ScanMatchesReference ==
    \A p \in ParticleIds :
        Scanned(p) =>
            /\ closest1[p] = NearestOf(p, Neighbours(p))
            /\ closest2[p] = NearestOf(p, Neighbours(p) \ {NearestOf(p, Neighbours(p))})

\* The scan of a particle with two other live particles at positive
\* distance has run.
C21_Witness ==
    \E p \in ParticleIds : Scanned(p) /\ Cardinality(Neighbours(p)) >= 2
\* C22: the Spawn pass of a tick resets exactly the nbToSpawn slots
\* (cursor + i) mod N, i in [0, nbToSpawn), to life 1.0, nbToSpawn being the
\* value computed from this tick's audio, and touches no other slot, so that
\* as many slots are spawned as the cursor then advances by.
SlotsOfTick == {(spawnIndex + i) % RingSize : i \in 0..(nbToSpawn - 1)}

SpawnStep == pass = "spawn" /\ pass' # "spawn"

C22_SpawnsNbToSpawnSlots ==
    [][SpawnStep =>
         \A s \in RingIds :
             IF s \in SlotsOfTick THEN life'[s] = LifeUnits ELSE life'[s] = life[s]]_vars
\* C23: the spawn cursor is always an integer in [0, N); nothing writes it
\* but the host's statement after the Spawn pass, which in every tick moves
\* it, once, to (cursor + nbToSpawn) mod N and ends the tick.
CursorInRange == spawnIndex \in RingIds

CursorWrittenOnlyByAdvance ==
    spawnIndex' # spawnIndex => pass = "advance"

AdvanceAsStated ==
    pass = "advance" =>
        /\ spawnIndex' = (spawnIndex + nbToSpawn) % RingSize
        /\ spawnIndex' # spawnIndex
        /\ pass' = "host"

C23_CursorAdvancesOncePerTick ==
    /\ []CursorInRange
    /\ [][CursorWrittenOnlyByAdvance /\ AdvanceAsStated]_vars

\* A tick has ended whose advance wrapped the cursor round the ring.
C23_Witness ==
    /\ pass = "host"
    /\ \E s \in RingIds : life[s] = LifeUnits
    /\ spawnIndex < nbToSpawn % RingSize

\* C24: the Update pass of a tick runs before its Spawn pass, so that at the
\* end of every tick each slot spawned in that tick has life exactly 1.0.
EndOfTick == pass = "advance" /\ pass' = "host"

C24_SpawnedSlotsEndAtFullLife ==
    [][EndOfTick => \A s \in RingSpawnSlots : life'[s] = LifeUnits]_vars

\* A tick with a positive time step has ended: the ring holds slots at
\* full life beside slots its Update pass has aged.
C24_Witness ==
    /\ pass = "host"
    /\ deltaTime > 0
    /\ \E s \in RingIds : life[s] = LifeUnits
    /\ \E s \in RingIds : life[s] > 0 /\ life[s] < LifeUnits
\* C28: at the end of every tick every link vertex of a dead particle has
\* opacity 0 (from initialisation, from the tick in which its life fell to 0
\* or below, and untouched while it stays dead), and so has every link for
\* which the scan found no neighbour.
TickEnded == pass = "host"

C28_DeadAndUnlinkedAreTransparent ==
    TickEnded =>
        \A p \in ParticleIds :
            /\ life[p] <= 0 => (linkOpacity1[p] = 0 /\ linkOpacity2[p] = 0)
            /\ closest1[p] = NoParticle => linkOpacity1[p] = 0
            /\ closest2[p] = NoParticle => linkOpacity2[p] = 0

\* A tick has ended in which a particle died whose scan had found a
\* neighbour, beside a live particle with a visible link.
C28_Witness ==
    /\ TickEnded
    /\ \E p \in ParticleIds : life[p] <= 0 /\ closest1[p] # NoParticle
    /\ \E q \in ParticleIds : life[q] > 0 /\ linkOpacity1[q] > 0
\* C25: every paint selected for forwarding in an active session makes
\* exactly one sender call, updateTexture when the paint carries a texture
\* (whether or not it carries a bitmap too) and updateFrame when it carries
\* a bitmap only; the texture-path and bitmap-path counters together rise by
\* exactly one for a forwarded frame and by nothing for a skipped one.
Selected(m) == m.spoutEnabled /\ m.spoutSender # 0 /\ ~SkipFrame(m.paintCount + 1, m.frameSkip)

PathChosen(m, texture, image) ==
    \A throws \in BOOLEAN :
        LET n == OnPaint(m, texture, image, throws)
            t == n.texturePathCount - m.texturePathCount
            b == n.bitmapPathCount - m.bitmapPathCount
        IN IF ~Selected(m) THEN t = 0 /\ b = 0
           ELSE IF texture THEN t = 1 /\ b = 0
           ELSE IF image THEN t = 0 /\ b = 1
           ELSE t = 0 /\ b = 0

PaintOfActiveSession ==
    paintCount' # paintCount /\ spoutEnabled /\ spoutSender # 0

C25_OneSenderCallPerForwardedPaint ==
    /\ [](\A texture \in BOOLEAN, image \in BOOLEAN : PathChosen(ModuleState, texture, image))
    /\ [][PaintOfActiveSession => FramesForwarded' - FramesForwarded \in {0, 1}]_vars

\* C26: under every interleaving of enable and disable requests no
\* offscreen surface carries more than one paint handler, a surface that
\* paints carries one, and one paint raises the paint counter by exactly one.
OnePaintHandler ==
    \A w \in WindowIds :
        /\ windows[w].handlers <= 1
        /\ (windows[w].st = "open" /\ windows[w].painting) => windows[w].handlers = 1

C26_OnePaintHandlerPerSurface ==
    /\ []OnePaintHandler
    /\ [][paintCount' # paintCount => paintCount' = paintCount + 1]_vars

\* C27: in every reachable state spoutEnabled implies that a sender is held
\* and that the session's offscreen surface is open and carries a paint
\* handler, also after a failed enable, after the main window has closed
\* and when an enable races with the main window closing.
C27_EnabledHasSenderAndSurface ==
    spoutEnabled =>
        /\ spoutSender # 0
        /\ spoutWindow # 0
        /\ windows[spoutWindow].st = "open"
        /\ windows[spoutWindow].handlers >= 1
\* C29: after any sequence of initRenderer, initVisualization and cleanup
\* calls, overlapping and failing ones included, at most one renderer exists
\* and at most one canvas is attached, and a call that fails leaves no
\* renderer, no camera, no controls and no canvas.
LiveRenderers == canvases \cup ({renderer} \ {0})

NothingLeft == renderer = 0 /\ camera = 0 /\ controls = 0 /\ canvases = {}

InitFailed ==
    \/ rendererRet' = "no-webgpu" /\ rendererRet # "no-webgpu"
    \/ rendererRet' = "failed" /\ InitsAwaiting' < InitsAwaiting

C29_OneRendererOneCanvas ==
    /\ [](Cardinality(canvases) <= 1 /\ Cardinality(LiveRenderers) <= 1)
    /\ [][InitFailed => NothingLeft']_vars
\* C30: after every analyzeAudio call the shared audio uniforms equal the
\* snapshot the call returned; in particular after closeAudio, and whenever
\* there is no analyser, they are 0 as the snapshot is.
C30_UniformsEqualSnapshot == sharedUniforms = audioData.scalars
====
